---- MODULE Spec2Model ----
(***************************************************************************)
(* Model of wf/__init__.py: compute_md5sum_task and download_file.         *)
(*                                                                         *)
(* The main thread creates a FIFO, starts a download thread that copies    *)
(* the source into the FIFO (download_file), opens the FIFO for reading,   *)
(* reads it in chunks of CHUNK_SIZE bytes into an md5 accumulator, writes  *)
(* "<hexdigest>\t<remote_path>\n" to /tmp/md5sum.txt, joins the thread and *)
(* returns a LatchFile.                                                    *)
(*                                                                         *)
(* Scaling: CHUNK_SIZE (4096 in the source) is the variable chunk_size,    *)
(* drawn from 1..MaxChunk; the pipe capacity (64 KiB on Linux) is the      *)
(* variable capacity, drawn from 1..MaxCap; the 128-bit md5 state is a     *)
(* DIGEST_HEX_LEN-hex-digit iterated hash (each byte is folded into the    *)
(* state in order), so that the digest is an order-sensitive function of   *)
(* the bytes fed and of nothing else.  The buffer of the BufferedReader    *)
(* that open(file_pipe, "rb") returns (st_blksize or 8192 bytes) is the    *)
(* variable buffer_size, drawn from 1..MaxBuf; UPDATE_INTERVAL is scaled   *)
(* to 2 chunks and the megabyte of the progress report to one byte.        *)
(***************************************************************************)
EXTENDS Integers, Sequences, FiniteSets, TLC

\* ---------------------------------------------------------------- bounds
MaxLen == 3        \* longest source content, in bytes
MaxChunk == 3      \* largest chunk size tried
MaxCap == 2        \* largest pipe capacity tried
MaxRuns == 2       \* sequential invocations of compute_md5sum_task
MaxBuf == 2        \* largest buffer size of the reader tried
MaxLongLen == 5    \* longest source of the long-source specifications

Bytes == {0, 1}

\* ------------------------------------------------------- general helpers
Min(a, b) == IF a < b THEN a ELSE b

SeqsUpTo(S, n) == UNION {[1..k -> S] : k \in 0..n}

Take(s, k) == SubSeq(s, 1, k)

Drop(s, k) == SubSeq(s, k + 1, Len(s))

IsPrefix(s, t) == Len(s) <= Len(t) /\ Take(t, Len(s)) = s

\* Optional[str]: None is the empty tuple, a string s is <<s>>.
None == <<>>

\* Python truthiness of an Optional[str]: None and "" are falsy.
Truthy(opt) == opt # None /\ opt[1] # ""

\* str() as applied by an f-string replacement field.
Str(opt) == IF opt = None THEN "None" ELSE opt[1]

\* ------------------------------------------------------------ hashlib.md5
DIGEST_HEX_LEN == 4

MD5Mod == 16 ^ DIGEST_HEX_LEN

\* hashlib.md5(): the initial accumulator state.
MD5Init == 54301

\* md5.update(chunk): fold the bytes of the chunk, in order, into the state.
RECURSIVE MD5Update(_, _)
MD5Update(state, chunk) ==
    IF chunk = <<>> THEN state
    ELSE MD5Update((state * 31 + Head(chunk) + 1) % MD5Mod, Tail(chunk))

HexDigits == <<"0", "1", "2", "3", "4", "5", "6", "7",
               "8", "9", "a", "b", "c", "d", "e", "f">>

\* md5.hexdigest(): lowercase hexadecimal, most significant digit first,
\* zero padded to the digest length.
hexdigest(state) ==
    [k \in 1..DIGEST_HEX_LEN |->
        HexDigits[((state \div (16 ^ (DIGEST_HEX_LEN - k))) % 16) + 1]]

\* ------------------------------------------------------ progress reports
\* UPDATE_INTERVAL, in chunks (int(500 MiB / CHUNK_SIZE) in the source,
\* scaled).
UPDATE_INTERVAL == 2

\* mb_read = i * CHUNK_SIZE / 1024 / 1024, in a unit scaled to one byte.
mb_read(idx, cs) == idx * cs

\* The log after the test of line 59 and the logging.info of line 61.
Logged(lg, idx, cs) ==
    IF idx > 0 /\ idx % UPDATE_INTERVAL = 0
    THEN Append(lg, mb_read(idx, cs))
    ELSE lg

\* ------------------------------------------------------------ the inputs
OUT_PATH == "/tmp/md5sum.txt"

\* LatchFile references the caller may pass as `file`.
Refs ==
    { [remote_path |-> None, local_path |-> "/data/test_file.txt"],
      [remote_path |-> <<"s3://latch-public/init/r1.fastq">>,
       local_path |-> "/tmp/r1.fastq"],
      [remote_path |-> <<"">>, local_path |-> "/data/test_file.txt"] }

\* output_file.remote_path
OutputRemote == <<"latch:///md5sum.txt">>

\* The `file` argument and the file content of a second invocation that
\* runs concurrently on another input.
OtherFile ==
    [remote_path |-> <<"s3://latch-public/init/r2.fastq">>,
     local_path |-> "/tmp/r2.fastq"]

OtherSource == <<1, 1, 0, 1, 0, 0>>

VARIABLES
    file,        \* the `file` argument: [remote_path, local_path]
    source,      \* byte content of the file the reference names
    chunk_size,  \* CHUNK_SIZE
    capacity,    \* capacity of the FIFO's kernel buffer
    buffer_size, \* size of the buffer of the BufferedReader f
    pcM,         \* position of the main thread in compute_md5sum_task
    pcF,         \* position of the download thread in download_file
    args,        \* arguments the download thread was started with
    pipe,        \* bytes in the FIFO, oldest first
    rOpen,       \* the FIFO has a reader attached
    wOpen,       \* the FIFO has a writer attached
    wEver,       \* a writer has opened the FIFO at some time
    written,     \* history: bytes the download thread wrote to the FIFO
    chunk,       \* bytes gathered by the f.read(CHUNK_SIZE) in progress
    fed,         \* history: bytes passed to md5sum.update so far
    md5sum,      \* state of the md5 accumulator
    i,           \* enumerate index: number of chunks iterated so far
    result,      \* hexdigest, None until computed
    outfile,     \* content of /tmp/md5sum.txt, as a sequence of text pieces
    prevOut,     \* history: content of /tmp/md5sum.txt when the task began
    ret,         \* value returned by compute_md5sum_task, None if none
    error,       \* exception that left compute_md5sum_task, "None" if none
    fetchErr,    \* exception raised in the download thread, "None" if none
    joined,      \* download_thread.join() has returned
    runs,        \* invocations started so far
    prevClean,   \* history: the previous invocation completed, no failure
    errorFrom,   \* stage whose exception left the task, "None" if none
    log,         \* progress reports logged by this invocation
    nReaders,    \* history: times the FIFO was opened for reading
    nWriters,    \* history: times the FIFO was opened for writing
    rbuf,        \* bytes read ahead into the buffer of f, not yet handed out
    read_end,    \* bytes placed in the buffer of f since it was last reset
    other        \* position of a concurrent invocation on another input

vars == <<file, source, chunk_size, capacity, buffer_size, pcM, pcF, args,
          pipe, rOpen,
          wOpen, wEver, written, chunk, fed, md5sum, i, result, outfile,
          prevOut, ret, error, fetchErr, joined, runs, prevClean, errorFrom,
          log, nReaders, nWriters, rbuf, read_end, other>>

inputVars == <<file, source, chunk_size, capacity, buffer_size>>

Terminal == {"Completed", "Failed"}

FetchTerminal == {"done", "failed"}

\* The state of an invocation that has not begun.
InitState ==
    /\ chunk_size \in 1..MaxChunk
    /\ capacity \in 1..MaxCap
    /\ buffer_size \in 1..MaxBuf
    /\ pcM = "Idle"
    /\ pcF = "none"
    /\ args = None
    /\ pipe = <<>>
    /\ rOpen = FALSE
    /\ wOpen = FALSE
    /\ wEver = FALSE
    /\ written = <<>>
    /\ chunk = <<>>
    /\ fed = <<>>
    /\ md5sum = MD5Init
    /\ i = 0
    /\ result = None
    /\ outfile = <<>>
    /\ prevOut = <<>>
    /\ ret = None
    /\ error = "None"
    /\ fetchErr = "None"
    /\ joined = FALSE
    /\ runs = 1
    /\ prevClean = FALSE
    /\ errorFrom = "None"
    /\ log = <<>>
    /\ nReaders = 0
    /\ nWriters = 0
    /\ rbuf = <<>>
    /\ read_end = 0
    /\ other = "none"

Init ==
    /\ file \in Refs
    /\ source \in SeqsUpTo(Bytes, MaxLen)
    /\ InitState

\* Sources longer than the FIFO, the chunk and the buffer together: one
\* content for every length, for the reference of the launch plan.
LongSources == {[k \in 1..n |-> k % 2] : n \in 0..MaxLongLen}

InitLong ==
    /\ file = [remote_path |-> <<"s3://latch-public/init/r1.fastq">>,
               local_path |-> "/tmp/r1.fastq"]
    /\ source \in LongSources
    /\ InitState

\* ---------------------------------------------------------- main thread

\* The arguments of the download thread (lines 48-52).
ThreadArgs(f) ==
    <<[path |-> IF Truthy(f.remote_path) THEN f.remote_path[1]
                ELSE f.local_path,
       remote |-> f.remote_path # None]>>

\* mkfifo, Thread(...).start(), hashlib.md5()
StartThread ==
    /\ pcM = "Idle"
    /\ pcM' = "open"
    /\ pcF' = "start"
    /\ args' = ThreadArgs(file)
    /\ md5sum' = MD5Init
    /\ UNCHANGED <<inputVars, pipe, rOpen, wOpen, wEver, written, chunk, fed,
                   i, result, outfile, prevOut, ret, error, fetchErr, joined,
                   runs, prevClean, errorFrom, log, nReaders, nWriters, rbuf,
                   read_end, other>>

\* open(file_pipe, "rb") is entered: the FIFO now has a reader; the call
\* does not return before a writer has opened the FIFO.
OpenCall ==
    /\ pcM = "open"
    /\ pcM' = "opening"
    /\ rOpen' = TRUE
    /\ nReaders' = nReaders + 1
    /\ UNCHANGED <<inputVars, pcF, args, pipe, wOpen, wEver, written, chunk,
                   fed, md5sum, i, result, outfile, prevOut, ret, error,
                   fetchErr, joined, runs, prevClean, errorFrom, log,
                   nWriters, rbuf, read_end, other>>

OpenReturn ==
    /\ pcM = "opening"
    /\ wEver
    /\ pcM' = "read"
    /\ UNCHANGED <<inputVars, pcF, args, pipe, rOpen, wOpen, wEver, written,
                   chunk, fed, md5sum, i, result, outfile, prevOut, ret,
                   error, fetchErr, joined, runs, prevClean, errorFrom, log,
                   nReaders, nWriters, rbuf, read_end, other>>

\* The bytes one read(2) asking for req bytes takes from the FIFO.
RawData(p, req) == Take(p, Min(Len(p), req))

\* Variant of RawData that hands over the newest bytes of the FIFO first.
RawData_Lifo(p, req) == Drop(p, Len(p) - Min(Len(p), req))

\* Variant of RawRequest that always asks for a whole buffer more than the
\* chunk lacks.
RawRequest_Greedy(remaining, bsize, rend) == remaining + bsize

\* The size f.read asks of read(2) when the chunk still lacks `remaining`
\* bytes: whole buffer-sized blocks go straight into the chunk, the last
\* part of a chunk is read through the buffer, which is filled as far as
\* it has room.
RawRequest(remaining, bsize, rend) ==
    IF remaining >= bsize THEN bsize * (remaining \div bsize)
    ELSE bsize - rend

\* Variant of RawRead that hands over the newest bytes of the FIFO first.
RawRead_Lifo ==
    /\ pcM = "read"
    /\ Len(chunk) < chunk_size
    /\ pipe # <<>>
    /\ LET remaining == chunk_size - Len(chunk)
           data == RawData_Lifo(pipe, RawRequest(remaining, buffer_size,
                                                 read_end))
           used == Min(Len(data), remaining)
       IN /\ pipe' = Take(pipe, Len(pipe) - Len(data))
          /\ chunk' = chunk \o Take(data, used)
          /\ rbuf' = Drop(data, used)
          /\ read_end' = IF remaining >= buffer_size THEN read_end
                         ELSE read_end + Len(data)
    /\ UNCHANGED <<inputVars, pcM, pcF, args, rOpen, wOpen, wEver, written,
                   fed, md5sum, i, result, outfile, prevOut, ret, error,
                   fetchErr, joined, runs, prevClean, errorFrom, log,
                   nReaders, nWriters, other>>

\* One read(2) on behalf of f.read(CHUNK_SIZE): the bytes available, at
\* most as many as asked for; what the chunk does not need stays in the
\* buffer of f.
RawRead ==
    /\ pcM = "read"
    /\ Len(chunk) < chunk_size
    /\ pipe # <<>>
    /\ LET remaining == chunk_size - Len(chunk)
           data == RawData(pipe, RawRequest(remaining, buffer_size,
                                            read_end))
           used == Min(Len(data), remaining)
       IN /\ pipe' = Drop(pipe, Len(data))
          /\ chunk' = chunk \o Take(data, used)
          /\ rbuf' = Drop(data, used)
          /\ read_end' = IF remaining >= buffer_size THEN read_end
                         ELSE read_end + Len(data)
    /\ UNCHANGED <<inputVars, pcM, pcF, args, rOpen, wOpen, wEver, written,
                   fed, md5sum, i, result, outfile, prevOut, ret, error,
                   fetchErr, joined, runs, prevClean, errorFrom, log,
                   nReaders, nWriters, other>>

\* The next f.read(CHUNK_SIZE) begins: it takes what the buffer of f
\* holds, and resets the buffer when that is not a whole chunk.
NextRead ==
    /\ chunk' = Take(rbuf, Min(chunk_size, Len(rbuf)))
    /\ rbuf' = Drop(rbuf, Min(chunk_size, Len(rbuf)))
    /\ read_end' = IF chunk_size <= Len(rbuf) THEN read_end ELSE 0

\* Variant of LoopBody that hashes each chunk with a fresh accumulator.
LoopBody_FreshHash(c) ==
    /\ log' = Logged(log, i, chunk_size)
    /\ md5sum' = MD5Update(MD5Init, c)
    /\ fed' = fed \o c
    /\ i' = i + 1
    /\ NextRead

\* The loop body for a chunk c: the progress report (lines 59-61), then
\* md5sum.update(chunk) (line 62).
LoopBody(c) ==
    /\ log' = Logged(log, i, chunk_size)
    /\ md5sum' = MD5Update(md5sum, c)
    /\ fed' = fed \o c
    /\ i' = i + 1
    /\ NextRead

\* f.read returns a full chunk and the loop body runs.
FullChunk ==
    /\ pcM = "read"
    /\ Len(chunk) = chunk_size
    /\ LoopBody(chunk)
    /\ UNCHANGED <<inputVars, pcM, pcF, args, pipe, rOpen, wOpen, wEver,
                   written, result, outfile, prevOut, ret, error, fetchErr,
                   joined, runs, prevClean, errorFrom, nReaders, nWriters,
                   other>>

\* read(2) returns 0 (FIFO empty, no writer) with a chunk partly gathered:
\* f.read returns the short chunk and the loop body runs.
ShortChunk ==
    /\ pcM = "read"
    /\ pipe = <<>> /\ ~wOpen
    /\ chunk # <<>> /\ Len(chunk) < chunk_size
    /\ LoopBody(chunk)
    /\ UNCHANGED <<inputVars, pcM, pcF, args, pipe, rOpen, wOpen, wEver,
                   written, result, outfile, prevOut, ret, error, fetchErr,
                   joined, runs, prevClean, errorFrom, nReaders, nWriters,
                   other>>

\* Variant of EndOfStream that runs the loop body on the empty chunk
\* before it stops.
EndOfStream_Counted ==
    /\ pcM = "read"
    /\ pipe = <<>> /\ ~wOpen
    /\ chunk = <<>>
    /\ pcM' = "digest"
    /\ rOpen' = FALSE
    /\ i' = i + 1
    /\ UNCHANGED <<inputVars, pcF, args, pipe, wOpen, wEver, written, chunk,
                   fed, md5sum, result, outfile, prevOut, ret, error,
                   fetchErr, joined, runs, prevClean, errorFrom, log,
                   nReaders, nWriters, rbuf, read_end, other>>

\* f.read returns b"": the iter() sentinel ends the loop, the with block
\* closes f.
EndOfStream ==
    /\ pcM = "read"
    /\ pipe = <<>> /\ ~wOpen
    /\ chunk = <<>>
    /\ pcM' = "digest"
    /\ rOpen' = FALSE
    /\ UNCHANGED <<inputVars, pcF, args, pipe, wOpen, wEver, written, chunk,
                   fed, md5sum, i, result, outfile, prevOut, ret, error,
                   fetchErr, joined, runs, prevClean, errorFrom, log,
                   nReaders, nWriters, rbuf, read_end, other>>

\* Variant of ReadFail that swallows the exception and ends the loop.
ReadFail_Swallowed ==
    /\ pcM = "read"
    /\ pcM' = "digest"
    /\ error' = "IOFailure"
    /\ errorFrom' = "digester"
    /\ rOpen' = FALSE
    /\ chunk' = <<>>
    /\ rbuf' = <<>>
    /\ read_end' = 0
    /\ UNCHANGED <<inputVars, pcF, args, pipe, wOpen, wEver, written, fed,
                   md5sum, i, result, outfile, prevOut, ret, joined,
                   fetchErr, runs, prevClean, log, nReaders, nWriters, other>>

\* f.read raises OSError: the with blocks unwind (f is closed, the
\* temporary directory removed) and the exception leaves the task.
ReadFail ==
    /\ pcM = "read"
    /\ pcM' = "Failed"
    /\ error' = "IOFailure"
    /\ errorFrom' = "digester"
    /\ rOpen' = FALSE
    /\ chunk' = <<>>
    /\ rbuf' = <<>>
    /\ read_end' = 0
    /\ UNCHANGED <<inputVars, pcF, args, pipe, wOpen, wEver, written, fed,
                   md5sum, i, result, outfile, prevOut, ret, joined,
                   fetchErr, runs, prevClean, log, nReaders, nWriters, other>>

\* f"{result}\t{file.remote_path}\n"
FormatLine(res, f) == res \o <<"\t", Str(f.remote_path), "\n">>

\* Variant of WriteFile that always appends.
WriteFile_Append(mode, old, text) == old \o text

\* open(path, mode).write(text) and close: "w" truncates.
WriteFile(mode, old, text) == IF mode = "a" THEN old \o text ELSE text

\* result = md5sum.hexdigest(); write /tmp/md5sum.txt (lines 63-65).
WriteResult ==
    /\ pcM = "digest"
    /\ result' = hexdigest(md5sum)
    /\ outfile' = WriteFile("w", outfile, FormatLine(result', file))
    /\ pcM' = "join"
    /\ UNCHANGED <<inputVars, pcF, args, pipe, rOpen, wOpen, wEver, written,
                   chunk, fed, md5sum, i, prevOut, ret, error, fetchErr,
                   joined, runs, prevClean, errorFrom, log, nReaders,
                   nWriters, rbuf, read_end, other>>

\* download_thread.join() returns once the thread has ended, however it
\* ended; then the LatchFile is returned (lines 67-68).
JoinReturn ==
    /\ pcM = "join"
    /\ pcF \in FetchTerminal
    /\ joined' = TRUE
    /\ ret' = <<[path |-> OUT_PATH, remote_path |-> OutputRemote]>>
    /\ pcM' = "Completed"
    /\ UNCHANGED <<inputVars, pcF, args, pipe, rOpen, wOpen, wEver, written,
                   chunk, fed, md5sum, i, result, outfile, prevOut, error,
                   fetchErr, runs, prevClean, errorFrom, log, nReaders,
                   nWriters, rbuf, read_end, other>>

\* ------------------------------------------------------ download thread

\* download_file fails before the destination is opened (cp cannot open
\* the source, the remote object does not exist): the exception ends the
\* thread.
FetchFailEarly ==
    /\ pcF = "start"
    /\ pcF' = "failed"
    /\ fetchErr' = "NotFound"
    /\ UNCHANGED <<inputVars, pcM, args, pipe, rOpen, wOpen, wEver, written,
                   chunk, fed, md5sum, i, result, outfile, prevOut, ret,
                   error, joined, runs, prevClean, errorFrom, log, nReaders,
                   nWriters, rbuf, read_end, other>>

\* The copy opens the FIFO for writing: blocks until it has a reader.
FetchOpen ==
    /\ pcF = "start"
    /\ rOpen
    /\ pcF' = "write"
    /\ wOpen' = TRUE
    /\ wEver' = TRUE
    /\ nWriters' = nWriters + 1
    /\ UNCHANGED <<inputVars, pcM, args, pipe, rOpen, written, chunk, fed,
                   md5sum, i, result, outfile, prevOut, ret, error, fetchErr,
                   joined, runs, prevClean, errorFrom, log, nReaders, rbuf,
                   read_end, other>>

\* The copy writes the next bytes of the source: blocks while the FIFO is
\* full.
FetchWrite ==
    /\ pcF = "write"
    /\ rOpen
    /\ \E k \in 1..Min(Len(source) - Len(written), capacity - Len(pipe)) :
          LET bytes == SubSeq(source, Len(written) + 1, Len(written) + k)
          IN /\ pipe' = pipe \o bytes
             /\ written' = written \o bytes
    /\ UNCHANGED <<inputVars, pcM, pcF, args, rOpen, wOpen, wEver, chunk,
                   fed, md5sum, i, result, outfile, prevOut, ret, error,
                   fetchErr, joined, runs, prevClean, errorFrom, log,
                   nReaders, nWriters, rbuf, read_end, other>>

\* A write to the FIFO after its reader has gone: EPIPE.
FetchBrokenPipe ==
    /\ pcF = "write"
    /\ ~rOpen
    /\ Len(written) < Len(source)
    /\ pcF' = "failed"
    /\ fetchErr' = "IOFailure"
    /\ wOpen' = FALSE
    /\ UNCHANGED <<inputVars, pcM, args, pipe, rOpen, wEver, written, chunk,
                   fed, md5sum, i, result, outfile, prevOut, ret, error,
                   joined, runs, prevClean, errorFrom, log, nReaders,
                   nWriters, rbuf, read_end, other>>

\* Variant of FetchFailMid that starts the copy again after the failure.
FetchFailMid_Retry ==
    /\ pcF = "write"
    /\ pcF' = "start"
    /\ fetchErr' = "IOFailure"
    /\ wOpen' = FALSE
    /\ UNCHANGED <<inputVars, pcM, args, pipe, rOpen, wEver, written, chunk,
                   fed, md5sum, i, result, outfile, prevOut, ret, error,
                   joined, runs, prevClean, errorFrom, log, nReaders,
                   nWriters, rbuf, read_end, other>>

\* The copy fails after the FIFO was opened (read error on the source,
\* network error): the writer end is closed as the copy ends, the
\* exception ends the thread.
FetchFailMid ==
    /\ pcF = "write"
    /\ pcF' = "failed"
    /\ fetchErr' = "IOFailure"
    /\ wOpen' = FALSE
    /\ UNCHANGED <<inputVars, pcM, args, pipe, rOpen, wEver, written, chunk,
                   fed, md5sum, i, result, outfile, prevOut, ret, error,
                   joined, runs, prevClean, errorFrom, log, nReaders,
                   nWriters, rbuf, read_end, other>>

\* Variant of FetchClose in which the writer end is never released.
FetchClose_Leak ==
    /\ pcF = "write"
    /\ written = source
    /\ pcF' = "done"
    /\ UNCHANGED <<inputVars, pcM, args, pipe, rOpen, wOpen, wEver, written,
                   chunk, fed, md5sum, i, result, outfile, prevOut, ret,
                   error, fetchErr, joined, runs, prevClean, errorFrom, log,
                   nReaders, nWriters, rbuf, read_end, other>>

\* Everything is written: the copy closes the FIFO and download_file
\* returns.
FetchClose ==
    /\ pcF = "write"
    /\ written = source
    /\ pcF' = "done"
    /\ wOpen' = FALSE
    /\ UNCHANGED <<inputVars, pcM, args, pipe, rOpen, wEver, written, chunk,
                   fed, md5sum, i, result, outfile, prevOut, ret, error,
                   fetchErr, joined, runs, prevClean, errorFrom, log,
                   nReaders, nWriters, rbuf, read_end, other>>

\* ------------------------------------------------------------ the caller

\* The caller invokes the task again on the same input once the previous
\* invocation and its thread have ended; /tmp/md5sum.txt persists.
Reinvoke ==
    /\ pcM \in Terminal
    /\ pcF \in FetchTerminal
    /\ runs < MaxRuns
    /\ runs' = runs + 1
    /\ prevClean' = (pcM = "Completed" /\ fetchErr = "None")
    /\ prevOut' = outfile
    /\ pcM' = "Idle"
    /\ pcF' = "none"
    /\ args' = None
    /\ pipe' = <<>>
    /\ rOpen' = FALSE
    /\ wOpen' = FALSE
    /\ wEver' = FALSE
    /\ written' = <<>>
    /\ chunk' = <<>>
    /\ fed' = <<>>
    /\ md5sum' = MD5Init
    /\ i' = 0
    /\ result' = None
    /\ ret' = None
    /\ error' = "None"
    /\ fetchErr' = "None"
    /\ joined' = FALSE
    /\ errorFrom' = "None"
    /\ log' = <<>>
    /\ nReaders' = 0
    /\ nWriters' = 0
    /\ rbuf' = <<>>
    /\ read_end' = 0
    /\ other' = other
    /\ UNCHANGED <<inputVars, outfile>>

\* ------------------------------------------- a concurrent invocation
\* A second invocation of compute_md5sum_task, in the same file system, on
\* OtherFile: it has its own temporary directory, FIFO, thread and
\* accumulator, so only its steps on /tmp/md5sum.txt are visible here.

\* The other invocation begins and digests its source (lines 43-63).
OtherStart ==
    /\ other = "none"
    /\ other' = "digest"
    /\ UNCHANGED <<inputVars, pcM, pcF, args, pipe, rOpen, wOpen, wEver,
                   written, chunk, fed, md5sum, i, result, outfile, prevOut,
                   ret, error, fetchErr, joined, runs, prevClean, errorFrom,
                   log, nReaders, nWriters, rbuf, read_end>>

\* The line the other invocation writes.
OtherLine == FormatLine(hexdigest(MD5Update(MD5Init, OtherSource)), OtherFile)

\* The other invocation writes /tmp/md5sum.txt (lines 64-65).
OtherWrite ==
    /\ other = "digest"
    /\ other' = "join"
    /\ outfile' = WriteFile("w", outfile, OtherLine)
    /\ UNCHANGED <<inputVars, pcM, pcF, args, pipe, rOpen, wOpen, wEver,
                   written, chunk, fed, md5sum, i, result, prevOut, ret,
                   error, fetchErr, joined, runs, prevClean, errorFrom, log,
                   nReaders, nWriters, rbuf, read_end>>

\* The other invocation joins its thread and returns
\* LatchFile("/tmp/md5sum.txt") (lines 67-68).
OtherReturn ==
    /\ other = "join"
    /\ other' = "Completed"
    /\ UNCHANGED <<inputVars, pcM, pcF, args, pipe, rOpen, wOpen, wEver,
                   written, chunk, fed, md5sum, i, result, outfile, prevOut,
                   ret, error, fetchErr, joined, runs, prevClean, errorFrom,
                   log, nReaders, nWriters, rbuf, read_end>>

MainStep ==
    \/ StartThread
    \/ OpenCall
    \/ OpenReturn
    \/ RawRead
    \/ FullChunk
    \/ ShortChunk
    \/ EndOfStream
    \/ WriteResult
    \/ JoinReturn

FetchStep ==
    \/ FetchOpen
    \/ FetchWrite
    \/ FetchBrokenPipe
    \/ FetchClose

Next ==
    \/ StartThread
    \/ OpenCall
    \/ OpenReturn
    \/ RawRead
    \/ FullChunk
    \/ ShortChunk
    \/ EndOfStream
    \/ ReadFail
    \/ WriteResult
    \/ JoinReturn
    \/ FetchFailEarly
    \/ FetchOpen
    \/ FetchWrite
    \/ FetchBrokenPipe
    \/ FetchFailMid
    \/ FetchClose
    \/ Reinvoke

Spec == Init /\ [][Next]_vars

\* Both threads are scheduled fairly; failures and re-invocation are the
\* environment's choice.
FairSpec == Spec /\ WF_vars(MainStep) /\ WF_vars(FetchStep)

\* Two invocations in the same file system.
ConcNext ==
    \/ Next
    \/ OtherStart
    \/ OtherWrite
    \/ OtherReturn

ConcSpec == Init /\ [][ConcNext]_vars

\* The same program on the long sources.
LongSpec == InitLong /\ [][Next]_vars

FairLongSpec == LongSpec /\ WF_vars(MainStep) /\ WF_vars(FetchStep)

TypeOK ==
    /\ pcM \in {"Idle", "open", "opening", "read", "digest", "join"}
               \cup Terminal
    /\ pcF \in {"none", "start", "write"} \cup FetchTerminal
    /\ Len(pipe) <= capacity
    /\ Len(chunk) <= chunk_size
    /\ Len(rbuf) < buffer_size
    /\ read_end \in 0..buffer_size
    /\ i \in 0..(IF MaxLen > MaxLongLen THEN MaxLen ELSE MaxLongLen)

\* ================================================================ claims

\* C1: whenever the download thread has failed, the invocation eventually
\* reaches a terminal state: the reader never stays blocked on the FIFO.
C1_FetchFailureReleasesReader ==
    [](fetchErr # "None" => <>(pcM \in Terminal))

\* C2: once the download thread has failed, an invocation that ends ends
\* Failed and returns no result file.
C2_FetchFailureFailsInvocation ==
    (fetchErr # "None" /\ pcM \in Terminal) => (pcM = "Failed" /\ ret = None)

\* C3: when the output artifact has been written, the bytes fed to the
\* accumulator are the whole source content.
C3_DigestOfWholeSource ==
    pcM \in {"join", "Completed"} => fed = source

\* C4: when the read loop has ended, the accumulator holds the digest of
\* the concatenation of the bytes that went through the channel, whatever
\* the chunk size: the bytes fed are exactly the bytes written and the
\* state is the one a single update with all of them gives.
C4_ChunkSizeIndependent ==
    pcM \in {"digest", "join", "Completed"} =>
        /\ fed = written
        /\ md5sum = MD5Update(MD5Init, written)
        /\ result # None => result = hexdigest(MD5Update(MD5Init, written))

C4_Witness ==
    /\ pcM = "Completed"
    /\ i >= 2
    /\ chunk_size = 2
    /\ Len(fed) = 3

\* The identifier the reference was made from.
OriginalIdentifier(f) ==
    IF f.remote_path # None THEN f.remote_path[1] ELSE f.local_path

\* C5: on success the artifact is the single line
\* <digest> TAB <original identifier of the reference> NEWLINE.
C5_ArtifactNamesSource ==
    (pcM = "Completed" /\ fetchErr = "None") =>
        outfile = result \o <<"\t", OriginalIdentifier(file), "\n">>

\* C6: the bytes fed to the accumulator are a prefix of the bytes the
\* download thread wrote, which are a prefix of the source content.
C6_OrderPreserved ==
    /\ IsPrefix(fed, written)
    /\ IsPrefix(written, source)

C6_Witness ==
    /\ Len(fed) = 1
    /\ Len(written) = 2
    /\ Len(source) = 3
    /\ source[1] # source[2]

\* C7: when a read of the channel has failed, no digest is produced: the
\* artifact still has the content it had when the invocation began and
\* nothing is returned.
C7_ReadFailureNoDigest ==
    error # "None" =>
        /\ outfile = prevOut
        /\ result = None
        /\ ret = None

C7_Witness ==
    /\ pcM = "Failed"
    /\ error = "IOFailure"
    /\ fed # <<>>
    /\ Len(fed) < Len(source)
    /\ prevOut # <<>>

\* Number of line ends in a text.
RECURSIVE Lines(_)
Lines(text) ==
    IF text = <<>> THEN 0
    ELSE (IF Head(text) = "\n" THEN 1 ELSE 0) + Lines(Tail(text))

\* C8: after a successful invocation that follows a successful invocation
\* on the same input, the artifact is the one the earlier invocation left
\* and has exactly one line.
C8_ArtifactOverwritten ==
    (pcM = "Completed" /\ fetchErr = "None" /\ prevClean) =>
        /\ outfile = prevOut
        /\ Lines(outfile) = 1

C8_Witness ==
    /\ pcM = "Completed"
    /\ fetchErr = "None"
    /\ prevClean
    /\ runs = 2
    /\ source # <<>>

\* C9: for an empty source the invocation never blocks while nothing has
\* failed, the loop ends without an update, and the digest is the digest
\* of the empty byte sequence.
C9_EmptySource ==
    source = <<>> =>
        /\ (pcM \notin Terminal /\ fetchErr = "None")
              => ENABLED (MainStep \/ FetchStep)
        /\ pcM \in {"digest", "join", "Completed"}
              => (i = 0 /\ fed = <<>> /\ md5sum = MD5Init)
        /\ result # None => result = <<"d", "4", "1", "d">>

C9_Witness ==
    /\ source = <<>>
    /\ pcM = "Completed"
    /\ pcF = "done"
    /\ outfile # <<>>

\* C10: in every terminal state the download thread has ended and has
\* been joined.
C10_FetcherJoinedAtExit ==
    pcM \in Terminal => (joined /\ pcF \in FetchTerminal)

\* C11: when both the download thread and the digester have failed, the
\* error the invocation reports is the download thread's.
C11_FetcherErrorPrimary ==
    (pcM = "Failed" /\ fetchErr # "None" /\ error # "None") =>
        (errorFrom = "fetcher" /\ error = fetchErr)

\* C12: the artifact is written only after the download thread has been
\* joined.
C12_WriteAfterJoin ==
    [][outfile' # outfile => joined]_vars

\* C13: under fair scheduling of the two threads an invocation in which
\* neither the download thread nor a read fails reaches Completed.
C13_CompletesWithoutDeadlock ==
    (pcM = "Idle") ~> (pcM = "Completed" \/ fetchErr # "None" \/ error # "None")

C13_Witness ==
    /\ pcM = "Completed"
    /\ fetchErr = "None"
    /\ Len(source) = 5
    /\ capacity = 1
    /\ chunk_size = 2
    /\ i = 3

\* C15: the download thread is started in remote mode exactly when the
\* path it is given is the reference's remote identifier, and in local
\* mode exactly when the path is the local path.
C15_ModeMatchesIdentifier ==
    args # None =>
        /\ args[1].remote <=>
              (file.remote_path # None /\ args[1].path = file.remote_path[1])
        /\ ~args[1].remote <=> (args[1].path = file.local_path)

\* Bytes between two progress reports.
IntervalBytes == UPDATE_INTERVAL * chunk_size

\* C14: when the loop has ended, one progress report has been emitted for
\* every full interval of bytes read, each with the number of bytes read
\* up to then; a source of exactly one interval's length gives one report.
C14_ProgressReports ==
    pcM \in {"digest", "join", "Completed"} =>
        log = [k \in 1..(Len(fed) \div IntervalBytes) |-> k * IntervalBytes]

\* C17: each end of the channel is attached at most once, an attached end
\* is that one attachment, and a completed invocation has had exactly one
\* writer and one reader.
C17_OneWriterOneReader ==
    /\ nReaders <= 1 /\ nWriters <= 1
    /\ rOpen => nReaders = 1
    /\ wOpen => nWriters = 1
    /\ pcM = "Completed" => (nReaders = 1 /\ nWriters = 1)

C17_Witness ==
    /\ pcM = "Completed"
    /\ nReaders = 1
    /\ nWriters = 1
    /\ written = source
    /\ Len(source) = 2

\* Bytes the download thread has written that the accumulator has not
\* been fed.
Unfed == Len(written) - Len(fed)

\* C18 (as claimed): the bytes written and not yet fed are at most the
\* channel capacity plus one chunk.
C18_BoundedByCapacityPlusChunk ==
    Unfed <= capacity + chunk_size

\* C18 (amended): the bytes written and not yet fed are at most the
\* channel capacity plus one chunk plus what the reader's buffer can hold
\* ahead of the chunk, whatever the length of the source.
C18_BoundedBuffering ==
    Unfed <= capacity + chunk_size + (buffer_size - 1)

C18_Witness ==
    /\ buffer_size = 2
    /\ rbuf # <<>>
    /\ Len(pipe) = capacity
    /\ Unfed = capacity + chunk_size + (buffer_size - 1)
    /\ Unfed < Len(source)

\* C16: when an invocation returns, the file it returns holds the line
\* that invocation wrote, also when another invocation runs concurrently.
C16_InvocationsDoNotInterfere ==
    [][/\ (pcM = "join" /\ pcM' = "Completed")
            => outfile' = FormatLine(result', file)
       /\ (other = "join" /\ other' = "Completed")
            => outfile' = OtherLine]_vars

====
